---- MODULE Spec2Model ----
(***************************************************************************)
(* MIFARE Classic dictionary-attack scene                                  *)
(* (applications/main/nfc/scenes/nfc_scene_mf_classic_dict_attack.c).      *)
(*                                                                         *)
(* Two threads act on the NfcApp instance: the poller (card session)       *)
(* thread runs nfc_dict_attack_worker_callback, the GUI thread runs the    *)
(* scene handlers on_enter / on_event / on_exit.  They communicate through *)
(* the view dispatcher's FIFO of custom events.                            *)
(*                                                                         *)
(* Two smaller programs of the repository follow the scene: the input and  *)
(* draw callbacks of the walkie-talkie application                         *)
(* (applications/external/walki_talki/walki_talki.c) and the key-file      *)
(* functions of the TPMS generic block                                     *)
(* (applications/external/tpms/protocols/tpms_generic.c).  Each has its    *)
(* own specification; the other programs' variables stay as constructed.   *)
(***************************************************************************)
EXTENDS Integers, Sequences, FiniteSets, TLC

VARIABLES
    instance,     \* the NfcApp fields the scene uses (see InitInstance)
    queue,        \* view dispatcher custom-event FIFO: <<event, origin>>
    scene,        \* "idle" | "active" | "leaving" | "exited"
    next_scene,   \* scene requested through scene_manager_next_scene
    event_data,   \* what the last poller callback left in mfc_event->data
    exit_calls,   \* number of on_exit invocations so far
    card,         \* the card in the field: what its session can report
    cause,        \* the custom event behind the latest restart or finalisation
    app,          \* the walkie-talkie application (WalkieTalkieApp and its run)
    tpms          \* a TPMS generic block, its key file and the last results

vars ==
    <<instance, queue, scene, next_scene, event_data, exit_calls, card, cause,
      app, tpms>>

----------------------------------------------------------------------------
(* Bounds of the model *)

MaxQueue == 2      \* custom events waiting in the view dispatcher
MaxKeys == 2       \* candidates in a dictionary file

(* typedef enum DictAttackState *)
DictAttackStateUserDictInProgress == 0
DictAttackStateSystemDictInProgress == 1

----------------------------------------------------------------------------
(* Storage: the dictionary files and their nested-attack working copies *)

NFC_APP_MF_CLASSIC_DICT_USER_PATH == "mf_classic_dict_user.nfc"
NFC_APP_MF_CLASSIC_DICT_SYSTEM_PATH == "mf_classic_dict.nfc"
NFC_APP_MF_CLASSIC_DICT_USER_NESTED_PATH == "mf_classic_dict_user_nested.nfc"
NFC_APP_MF_CLASSIC_DICT_SYSTEM_NESTED_PATH == "mf_classic_dict_nested.nfc"

Paths ==
    { NFC_APP_MF_CLASSIC_DICT_USER_PATH, NFC_APP_MF_CLASSIC_DICT_SYSTEM_PATH,
      NFC_APP_MF_CLASSIC_DICT_USER_NESTED_PATH,
      NFC_APP_MF_CLASSIC_DICT_SYSTEM_NESTED_PATH }

(* A file is absent, or present with `keys` candidates.  Candidate number n  *)
(* of the file at path p is the pair <<p, n>>, n = 1 being the first in file *)
(* order.                                                                    *)
NoFile == [present |-> FALSE, keys |-> 0]
File(n) == [present |-> TRUE, keys |-> n]

NoKey == <<"", 0>>

(* The dictionary handle instance->nfc_dict_context.dict points to.  After  *)
(* keys_dict_free the pointer is left dangling: open = FALSE.               *)
NoDict == [path |-> "", open |-> FALSE, cursor |-> 0, total |-> 0]

(* The poller instance->poller points to. *)
NoPoller == [status |-> "none", id |-> 0, data |-> 0]

----------------------------------------------------------------------------
(* NfcMfClassicDictAttackContext, zero-initialised with the application *)

ZeroContext ==
    [ sectors_total |-> 0, sectors_read |-> 0, keys_found |-> 0,
      current_sector |-> 0, dict_keys_total |-> 0, dict_keys_current |-> 0,
      is_key_attack |-> FALSE, key_attack_current_sector |-> 0,
      is_card_present |-> FALSE, nested_phase |-> "None",
      prng_type |-> "Unknown", backdoor |-> "Unknown",
      nested_target_key |-> 0, msb_count |-> 0 ]

(* The dict_attack view model after dict_attack_alloc / dict_attack_reset *)
ZeroView ==
    [ header |-> "", card_state |-> FALSE, refresh |-> "none", setters |-> {} ]

InitInstance(files) ==
    [ scene_state |-> DictAttackStateUserDictInProgress,
      nfc_dict_context |-> ZeroContext,
      dict |-> NoDict,
      poller |-> NoPoller,
      nfc_device |-> 0,
      storage |-> files,
      dict_attack |-> ZeroView,
      faults |-> {} ]

----------------------------------------------------------------------------
(* Monitor: `faults` collects the resource-discipline violations a call     *)
(* sequence commits (double release, use after release, wrong order).       *)

Fault(i, f) == [i EXCEPT !.faults = @ \cup {f}]

FaultIf(i, cond, f) == IF cond THEN Fault(i, f) ELSE i

SessionLive(i) == i.poller.status \in {"running", "done", "stopped"}

----------------------------------------------------------------------------
(* Storage collaborator *)

Staged(i) == FaultIf(i, i.dict.open, "staging_with_open_handle")

storage_common_remove(i, path) ==
    [Staged(i) EXCEPT !.storage[path] = NoFile]

storage_common_copy(i, src, dst) ==
    IF i.storage[src].present
    THEN [Staged(i) EXCEPT !.storage[dst] = i.storage[src]]
    ELSE Fault(Staged(i), "staging_failed")

----------------------------------------------------------------------------
(* Dictionary collaborator (keys_dict) *)

keys_dict_check_presence(i, path) == i.storage[path].present

keys_dict_alloc(i, path, mode) ==
    LET j == FaultIf(i, i.dict.open, "dict_opened_over_open_handle") IN
    IF j.storage[path].present
    THEN [j EXCEPT !.dict = [path |-> path, open |-> TRUE, cursor |-> 0,
                             total |-> j.storage[path].keys]]
    ELSE IF mode = "KeysDictModeOpenAlways"
    THEN [j EXCEPT !.storage[path] = File(0),
                   !.dict = [path |-> path, open |-> TRUE, cursor |-> 0,
                             total |-> 0]]
    ELSE Fault([j EXCEPT !.dict = NoDict], "dict_open_failed")

keys_dict_get_total_keys(i) == i.dict.total

keys_dict_free(i) ==
    LET j == FaultIf(i, ~i.dict.open, "dict_released_twice")
        k == FaultIf(j, SessionLive(i), "dict_released_under_session")
    IN  [k EXCEPT !.dict.open = FALSE]

keys_dict_rewind(i) ==
    LET j == FaultIf(i, ~i.dict.open, "dict_used_after_release") IN
    [j EXCEPT !.dict.cursor = 0]

(* next_key: the candidate under the cursor, and the cursor advanced; no    *)
(* candidate once the cursor is past the last one.                          *)
KeyAvailable(i) == i.dict.cursor < i.dict.total

NextKey(i) == IF KeyAvailable(i) THEN <<i.dict.path, i.dict.cursor + 1>> ELSE NoKey

keys_dict_get_next_key(i) ==
    LET j == FaultIf(i, ~i.dict.open, "dict_used_after_release") IN
    IF KeyAvailable(i) THEN [j EXCEPT !.dict.cursor = @ + 1] ELSE j

----------------------------------------------------------------------------
(* Card session collaborator (nfc_poller) *)

nfc_poller_alloc_start(i) ==
    LET j == FaultIf(i, SessionLive(i), "session_started_over_live_session") IN
    [j EXCEPT !.poller = [status |-> "running", id |-> i.poller.id + 1,
                          data |-> 0]]

nfc_poller_stop(i) ==
    IF i.poller.status \in {"running", "done"}
    THEN [i EXCEPT !.poller.status = "stopped"]
    ELSE Fault(i, "session_stopped_after_release")

nfc_poller_free(i) ==
    IF i.poller.status = "stopped"
    THEN [i EXCEPT !.poller.status = "freed"]
    ELSE Fault(i, "session_released_twice")

nfc_poller_get_data(i) == i.poller.data

nfc_device_set_data(i, data) ==
    [i EXCEPT !.nfc_device = data]

----------------------------------------------------------------------------
(* nfc_scene_mf_classic_dict_attack_update_view *)

(* The dict_attack setters each branch of update_view calls; the view's     *)
(* `setters` field holds those of the latest refresh.                       *)
KeyAttackSetters == { "dict_attack_set_key_attack" }

ProgressSetters ==
    { "dict_attack_reset_key_attack", "dict_attack_set_sectors_total",
      "dict_attack_set_sectors_read", "dict_attack_set_keys_found",
      "dict_attack_set_current_dict_key", "dict_attack_set_current_sector",
      "dict_attack_set_nested_phase", "dict_attack_set_prng_type",
      "dict_attack_set_backdoor", "dict_attack_set_nested_target_key",
      "dict_attack_set_msb_count" }

(* Mutation: the progress fields are pushed during a key attack as well *)
MutUpdateViewPushesAll(i) ==
    LET mfc_dict == i.nfc_dict_context IN
    IF mfc_dict.is_key_attack
    THEN [i EXCEPT !.dict_attack.refresh = "key_attack",
                   !.dict_attack.setters =
                       KeyAttackSetters \cup
                       (ProgressSetters \ {"dict_attack_reset_key_attack"})]
    ELSE [i EXCEPT !.dict_attack.refresh = "progress",
                   !.dict_attack.setters = ProgressSetters]

nfc_scene_mf_classic_dict_attack_update_view(i) ==
    LET mfc_dict == i.nfc_dict_context IN
    IF mfc_dict.is_key_attack
    THEN [i EXCEPT !.dict_attack.refresh = "key_attack",
                   !.dict_attack.setters = KeyAttackSetters]
    ELSE [i EXCEPT !.dict_attack.refresh = "progress",
                   !.dict_attack.setters = ProgressSetters]

(* Mutation: the total-keys check of the user dictionary is missing *)
MutPrepareUserDict(i) ==
    LET a == storage_common_remove(i, NFC_APP_MF_CLASSIC_DICT_SYSTEM_NESTED_PATH)
        b == storage_common_copy(a, NFC_APP_MF_CLASSIC_DICT_SYSTEM_PATH,
                                 NFC_APP_MF_CLASSIC_DICT_SYSTEM_NESTED_PATH)
    IN
    IF ~keys_dict_check_presence(b, NFC_APP_MF_CLASSIC_DICT_USER_PATH)
    THEN [b EXCEPT !.scene_state = DictAttackStateSystemDictInProgress]
    ELSE
      LET c == storage_common_remove(b, NFC_APP_MF_CLASSIC_DICT_USER_NESTED_PATH)
          d == storage_common_copy(c, NFC_APP_MF_CLASSIC_DICT_USER_PATH,
                                   NFC_APP_MF_CLASSIC_DICT_USER_NESTED_PATH)
          e == keys_dict_alloc(d, NFC_APP_MF_CLASSIC_DICT_USER_PATH,
                               "KeysDictModeOpenAlways")
      IN  [e EXCEPT !.dict_attack.header = "MF Classic User Dictionary"]

(* Mutation: the empty user dictionary is abandoned without keys_dict_free *)
MutPrepareUserDictLeaks(i) ==
    LET a == storage_common_remove(i, NFC_APP_MF_CLASSIC_DICT_SYSTEM_NESTED_PATH)
        b == storage_common_copy(a, NFC_APP_MF_CLASSIC_DICT_SYSTEM_PATH,
                                 NFC_APP_MF_CLASSIC_DICT_SYSTEM_NESTED_PATH)
    IN
    IF ~keys_dict_check_presence(b, NFC_APP_MF_CLASSIC_DICT_USER_PATH)
    THEN [b EXCEPT !.scene_state = DictAttackStateSystemDictInProgress]
    ELSE
      LET c == storage_common_remove(b, NFC_APP_MF_CLASSIC_DICT_USER_NESTED_PATH)
          d == storage_common_copy(c, NFC_APP_MF_CLASSIC_DICT_USER_PATH,
                                   NFC_APP_MF_CLASSIC_DICT_USER_NESTED_PATH)
          e == keys_dict_alloc(d, NFC_APP_MF_CLASSIC_DICT_USER_PATH,
                               "KeysDictModeOpenAlways")
      IN
      IF keys_dict_get_total_keys(e) = 0
      THEN [e EXCEPT !.scene_state = DictAttackStateSystemDictInProgress]
      ELSE [e EXCEPT !.dict_attack.header = "MF Classic User Dictionary"]

(* The do { ... } while(false) block of prepare_view, entered in the user   *)
(* state: returns the instance with the local `state` in scene_state.       *)
PrepareUserDict(i) ==
    LET a == storage_common_remove(i, NFC_APP_MF_CLASSIC_DICT_SYSTEM_NESTED_PATH)
        b == storage_common_copy(a, NFC_APP_MF_CLASSIC_DICT_SYSTEM_PATH,
                                 NFC_APP_MF_CLASSIC_DICT_SYSTEM_NESTED_PATH)
    IN
    IF ~keys_dict_check_presence(b, NFC_APP_MF_CLASSIC_DICT_USER_PATH)
    THEN [b EXCEPT !.scene_state = DictAttackStateSystemDictInProgress]
    ELSE
      LET c == storage_common_remove(b, NFC_APP_MF_CLASSIC_DICT_USER_NESTED_PATH)
          d == storage_common_copy(c, NFC_APP_MF_CLASSIC_DICT_USER_PATH,
                                   NFC_APP_MF_CLASSIC_DICT_USER_NESTED_PATH)
          e == keys_dict_alloc(d, NFC_APP_MF_CLASSIC_DICT_USER_PATH,
                               "KeysDictModeOpenAlways")
      IN
      IF keys_dict_get_total_keys(e) = 0
      THEN [keys_dict_free(e) EXCEPT
                !.scene_state = DictAttackStateSystemDictInProgress]
      ELSE [e EXCEPT !.dict_attack.header = "MF Classic User Dictionary"]

PrepareSystemDict(i) ==
    LET a == storage_common_remove(i, NFC_APP_MF_CLASSIC_DICT_SYSTEM_NESTED_PATH)
        b == storage_common_copy(a, NFC_APP_MF_CLASSIC_DICT_SYSTEM_PATH,
                                 NFC_APP_MF_CLASSIC_DICT_SYSTEM_NESTED_PATH)
        c == keys_dict_alloc(b, NFC_APP_MF_CLASSIC_DICT_SYSTEM_PATH,
                             "KeysDictModeOpenExisting")
    IN  [c EXCEPT !.dict_attack.header = "MF Classic System Dictionary"]

(* Mutation: dict_keys_current is carried over into the new phase *)
MutPrepareCountersKeepCurrent(i) ==
    [i EXCEPT !.nfc_dict_context.dict_keys_total = keys_dict_get_total_keys(i)]

(* Mutation: dict_keys_total is not recomputed from the handle just opened *)
MutPrepareCounters(i) ==
    [i EXCEPT !.nfc_dict_context.dict_keys_current = 0]

(* Lines 183-187: dict_keys_total from the open handle, dict_keys_current 0 *)
PrepareCounters(i) ==
    [i EXCEPT !.nfc_dict_context.dict_keys_total = keys_dict_get_total_keys(i),
              !.nfc_dict_context.dict_keys_current = 0]

nfc_scene_mf_classic_dict_attack_prepare_view(i) ==
    LET u == IF i.scene_state = DictAttackStateUserDictInProgress
             THEN PrepareUserDict(i) ELSE i
        s == IF u.scene_state = DictAttackStateSystemDictInProgress
             THEN PrepareSystemDict(u) ELSE u
    IN  nfc_scene_mf_classic_dict_attack_update_view(PrepareCounters(s))

(* nfc_scene_mf_classic_dict_attack_on_enter *)
nfc_scene_mf_classic_dict_attack_on_enter(i) ==
    LET a == [i EXCEPT !.scene_state = DictAttackStateUserDictInProgress]
        b == nfc_scene_mf_classic_dict_attack_prepare_view(a)
        c == [b EXCEPT !.dict_attack.card_state = TRUE]
    IN  nfc_poller_alloc_start(c)

(* The fields on_exit writes back to their defaults (lines 301-312) *)
ExitResetContext(ctx) ==
    [ctx EXCEPT !.current_sector = 0, !.sectors_total = 0, !.sectors_read = 0,
                !.keys_found = 0, !.dict_keys_total = 0,
                !.dict_keys_current = 0, !.is_key_attack = FALSE,
                !.key_attack_current_sector = 0, !.is_card_present = FALSE,
                !.nested_phase = "None", !.prng_type = "Unknown",
                !.backdoor = "Unknown"]

(* Mutation: teardown stops the session but never frees it *)
MutOnExitKeepsPoller(i) ==
    LET a == nfc_poller_stop(i)
        b == [a EXCEPT !.dict_attack = ZeroView,
                       !.scene_state = DictAttackStateUserDictInProgress]
        c == keys_dict_free(b)
    IN  [c EXCEPT !.nfc_dict_context = ExitResetContext(@)]

(* nfc_scene_mf_classic_dict_attack_on_exit *)
nfc_scene_mf_classic_dict_attack_on_exit(i) ==
    LET a == nfc_poller_free(nfc_poller_stop(i))
        b == [a EXCEPT !.dict_attack = ZeroView,
                       !.scene_state = DictAttackStateUserDictInProgress]
        c == keys_dict_free(b)
    IN  [c EXCEPT !.nfc_dict_context = ExitResetContext(@)]

(* Mutation: the dictionary is released while the session still runs *)
MutRestartWithSystemDict(i) ==
    LET a == keys_dict_free(i)
        b == nfc_poller_free(nfc_poller_stop(a))
        c == [b EXCEPT !.scene_state = DictAttackStateSystemDictInProgress]
        d == nfc_scene_mf_classic_dict_attack_prepare_view(c)
    IN  nfc_poller_alloc_start(d)

(* The user -> system transition both Complete and Skip perform            *)
(* (lines 229-238 and 259-268).                                             *)
RestartWithSystemDict(i) ==
    LET a == nfc_poller_free(nfc_poller_stop(i))
        b == keys_dict_free(a)
        c == [b EXCEPT !.scene_state = DictAttackStateSystemDictInProgress]
        d == nfc_scene_mf_classic_dict_attack_prepare_view(c)
    IN  nfc_poller_alloc_start(d)

----------------------------------------------------------------------------
(* The card under attack and what its session reports *)

(* card.total: the sector count of the card's type; card.sectors: the      *)
(* sector numbers its session reports, which the callback takes as they     *)
(* come; card.keys: the keys its session can recover.  A blank card reports *)
(* sector 0 only and gives up no key; the session of the keyed card also    *)
(* reports the sector number one past the last.                             *)
BlankCard == [total |-> 1, sectors |-> {0}, keys |-> 0]
KeyedCard == [total |-> 1, sectors |-> {0, 1}, keys |-> 1]

Sectors == card.sectors

(* mf_classic_get_total_sectors_num(mfc_data->type), for the card's type *)
mf_classic_get_total_sectors_num == card.total

(* mf_classic_get_read_sectors_and_keys over card data holding k keys *)
SectorsReadOf(k) == k \div 2
KeysFoundOf(k) == k

(* MfClassicPollerEventDataUpdate snapshots a session may deliver *)
Snapshot(n) ==
    [ sectors_read |-> n, keys_found |-> n, current_sector |-> n,
      nested_phase |-> IF n = 0 THEN "None" ELSE "Analyze",
      prng_type |-> IF n = 0 THEN "Unknown" ELSE "Weak",
      backdoor |-> IF n = 0 THEN "Unknown" ELSE "None",
      nested_target_key |-> n, msb_count |-> n ]

DataUpdates == { Snapshot(n) : n \in Sectors }

----------------------------------------------------------------------------
(* View dispatcher *)

NfcCustomEvents ==
    { "NfcCustomEventCardDetected", "NfcCustomEventCardLost",
      "NfcCustomEventDictAttackDataUpdate", "NfcCustomEventDictAttackComplete",
      "NfcCustomEventDictAttackSkip" }

CanSend == Len(queue) < MaxQueue

(* view_dispatcher_send_custom_event; origin is the id of the sending       *)
(* session, 0 for the GUI.                                                  *)
view_dispatcher_send_custom_event(q, event, origin) ==
    Append(q, [event |-> event, origin |-> origin])

(* mfc_event->data.key_request_data; cleared by the session for every       *)
(* event that is not a key request.                                         *)
NoEventData == [requested |-> FALSE, key_provided |-> FALSE, key |-> NoKey]

----------------------------------------------------------------------------
(* nfc_dict_attack_worker_callback, one action per MfClassicPollerEvent     *)

PollerRunning ==
    /\ scene = "active"
    /\ instance.poller.status = "running"

SendFromPoller(event) ==
    queue' = view_dispatcher_send_custom_event(queue, event, instance.poller.id)

WorkerCardDetected ==
    /\ PollerRunning /\ CanSend
    /\ instance' = [instance EXCEPT !.nfc_dict_context.is_card_present = TRUE]
    /\ SendFromPoller("NfcCustomEventCardDetected")
    /\ event_data' = NoEventData
    /\ UNCHANGED <<scene, next_scene, exit_calls, card, app, tpms, cause>>

WorkerCardLost ==
    /\ PollerRunning /\ CanSend
    /\ instance' = [instance EXCEPT !.nfc_dict_context.is_card_present = FALSE]
    /\ SendFromPoller("NfcCustomEventCardLost")
    /\ event_data' = NoEventData
    /\ UNCHANGED <<scene, next_scene, exit_calls, card, app, tpms, cause>>

WorkerRequestMode ==
    /\ PollerRunning /\ CanSend
    /\ instance' =
         [instance EXCEPT
            !.poller.data = instance.nfc_device,
            !.nfc_dict_context.sectors_total = mf_classic_get_total_sectors_num,
            !.nfc_dict_context.sectors_read = SectorsReadOf(instance.nfc_device),
            !.nfc_dict_context.keys_found = KeysFoundOf(instance.nfc_device)]
    /\ SendFromPoller("NfcCustomEventDictAttackDataUpdate")
    /\ event_data' = NoEventData
    /\ UNCHANGED <<scene, next_scene, exit_calls, card, app, tpms, cause>>

ProgressEvery == 10

(* Mutation: the counter is bumped whether or not a key was supplied *)
MutRequestKeyEffect(i) ==
    [keys_dict_get_next_key(i) EXCEPT
        !.nfc_dict_context.dict_keys_current = @ + 1]

(* Mutation: an exhausted dictionary wraps the counter back to 0 *)
MutRequestKeyWraps(i) ==
    IF KeyAvailable(i)
    THEN [keys_dict_get_next_key(i) EXCEPT
              !.nfc_dict_context.dict_keys_current = @ + 1]
    ELSE [keys_dict_get_next_key(i) EXCEPT
              !.nfc_dict_context.dict_keys_current = 0]

(* The RequestKey branch's effect on the instance (lines 46-57) *)
RequestKeyEffect(i) ==
    IF KeyAvailable(i)
    THEN [keys_dict_get_next_key(i) EXCEPT
              !.nfc_dict_context.dict_keys_current = @ + 1]
    ELSE keys_dict_get_next_key(i)

(* Mutation: every supplied key is notified *)
MutRequestKeyNotifiesEach(i) ==
    KeyAvailable(i)

RequestKeyNotifies(i) ==
    /\ KeyAvailable(i)
    /\ (i.nfc_dict_context.dict_keys_current + 1) % ProgressEvery = 0

WorkerRequestKey ==
    /\ PollerRunning
    /\ RequestKeyNotifies(instance) => CanSend
    /\ instance' = RequestKeyEffect(instance)
    /\ event_data' = [requested |-> TRUE,
                      key_provided |-> KeyAvailable(instance),
                      key |-> NextKey(instance)]
    /\ IF RequestKeyNotifies(instance)
       THEN SendFromPoller("NfcCustomEventDictAttackDataUpdate")
       ELSE UNCHANGED queue
    /\ UNCHANGED <<scene, next_scene, exit_calls, card, app, tpms, cause>>

DataUpdateEffect(ctx, data_update) ==
    [ctx EXCEPT !.sectors_read = data_update.sectors_read,
                !.keys_found = data_update.keys_found,
                !.current_sector = data_update.current_sector,
                !.nested_phase = data_update.nested_phase,
                !.prng_type = data_update.prng_type,
                !.backdoor = data_update.backdoor,
                !.nested_target_key = data_update.nested_target_key,
                !.msb_count = data_update.msb_count]

WorkerDataUpdate ==
    /\ PollerRunning /\ CanSend
    /\ \E data_update \in DataUpdates :
         instance' = [instance EXCEPT
                        !.nfc_dict_context = DataUpdateEffect(@, data_update)]
    /\ SendFromPoller("NfcCustomEventDictAttackDataUpdate")
    /\ event_data' = NoEventData
    /\ UNCHANGED <<scene, next_scene, exit_calls, card, app, tpms, cause>>

NextSectorEffect(i, current_sector) ==
    [keys_dict_rewind(i) EXCEPT
        !.nfc_dict_context.dict_keys_current = 0,
        !.nfc_dict_context.current_sector = current_sector]

WorkerNextSector ==
    /\ PollerRunning /\ CanSend
    /\ \E current_sector \in Sectors :
         instance' = NextSectorEffect(instance, current_sector)
    /\ SendFromPoller("NfcCustomEventDictAttackDataUpdate")
    /\ event_data' = NoEventData
    /\ UNCHANGED <<scene, next_scene, exit_calls, card, app, tpms, cause>>

(* FoundKeyA / FoundKeyB: the session has recovered one more key; the       *)
(* callback itself only notifies.                                           *)
(* Mutation: FoundKeyA/B recomputes the aggregates from the session's keys *)
MutWorkerFoundKeyRecomputes ==
    /\ PollerRunning /\ CanSend
    /\ LET found == IF instance.poller.data < card.keys
                    THEN instance.poller.data + 1 ELSE instance.poller.data
       IN  instance' = [instance EXCEPT
                          !.poller.data = found,
                          !.nfc_dict_context.sectors_read = SectorsReadOf(found),
                          !.nfc_dict_context.keys_found = KeysFoundOf(found)]
    /\ SendFromPoller("NfcCustomEventDictAttackDataUpdate")
    /\ event_data' = NoEventData
    /\ UNCHANGED <<scene, next_scene, exit_calls, card, app, tpms, cause>>

WorkerFoundKey ==
    /\ PollerRunning /\ CanSend
    /\ instance' = [instance EXCEPT
                      !.poller.data = IF @ < card.keys THEN @ + 1 ELSE @]
    /\ SendFromPoller("NfcCustomEventDictAttackDataUpdate")
    /\ event_data' = NoEventData
    /\ UNCHANGED <<scene, next_scene, exit_calls, card, app, tpms, cause>>

WorkerKeyAttackStart ==
    /\ PollerRunning /\ CanSend
    /\ \E current_sector \in Sectors :
         instance' = [instance EXCEPT
            !.nfc_dict_context.key_attack_current_sector = current_sector,
            !.nfc_dict_context.is_key_attack = TRUE]
    /\ SendFromPoller("NfcCustomEventDictAttackDataUpdate")
    /\ event_data' = NoEventData
    /\ UNCHANGED <<scene, next_scene, exit_calls, card, app, tpms, cause>>

(* Mutation: KeyAttackStop zeroes the counter without rewinding *)
MutKeyAttackStopNoRewind(i) ==
    [i EXCEPT
        !.nfc_dict_context.is_key_attack = FALSE,
        !.nfc_dict_context.dict_keys_current = 0]

KeyAttackStopEffect(i) ==
    [keys_dict_rewind(i) EXCEPT
        !.nfc_dict_context.is_key_attack = FALSE,
        !.nfc_dict_context.dict_keys_current = 0]

WorkerKeyAttackStop ==
    /\ PollerRunning /\ CanSend
    /\ instance' = KeyAttackStopEffect(instance)
    /\ SendFromPoller("NfcCustomEventDictAttackDataUpdate")
    /\ event_data' = NoEventData
    /\ UNCHANGED <<scene, next_scene, exit_calls, card, app, tpms, cause>>

(* Mutation: only the Success of the system pass writes the device record *)
MutWorkerSuccessSystemOnly ==
    /\ PollerRunning /\ CanSend
    /\ instance' =
         [(IF instance.scene_state = DictAttackStateSystemDictInProgress
           THEN nfc_device_set_data(instance, nfc_poller_get_data(instance))
           ELSE instance)
            EXCEPT !.poller.status = "done"]
    /\ SendFromPoller("NfcCustomEventDictAttackComplete")
    /\ event_data' = NoEventData
    /\ UNCHANGED <<scene, next_scene, exit_calls, card, app, tpms, cause>>

(* Success: the callback returns NfcCommandStop and the poller winds down   *)
WorkerSuccess ==
    /\ PollerRunning /\ CanSend
    /\ instance' =
         [nfc_device_set_data(instance, nfc_poller_get_data(instance))
            EXCEPT !.poller.status = "done"]
    /\ SendFromPoller("NfcCustomEventDictAttackComplete")
    /\ event_data' = NoEventData
    /\ UNCHANGED <<scene, next_scene, exit_calls, card, app, tpms, cause>>

(* nfc_dict_attack_dict_attack_result_callback(DictAttackEventSkipPressed)  *)
SkipPressed ==
    /\ scene = "active" /\ CanSend
    /\ queue' = view_dispatcher_send_custom_event(
                    queue, "NfcCustomEventDictAttackSkip", 0)
    /\ UNCHANGED <<instance, scene, next_scene, event_data, exit_calls, card, app, tpms, cause>>

----------------------------------------------------------------------------
(* nfc_scene_mf_classic_dict_attack_on_event: the scene manager hands the   *)
(* scene the custom event at the head of the queue.                         *)

Delivered(event) ==
    /\ scene = "active"
    /\ queue # <<>>
    /\ Head(queue).event = event
    /\ queue' = Tail(queue)

(* notify_read, scene_manager_next_scene(NfcSceneReadSuccess), dolphin_deed *)
Finalize ==
    /\ scene' = "leaving"
    /\ next_scene' = "NfcSceneReadSuccess"

(* Mutation: a Success of the system pass starts the run over *)
MutOnEventComplete ==
    /\ Delivered("NfcCustomEventDictAttackComplete")
    /\ IF instance.scene_state = DictAttackStateUserDictInProgress
       THEN instance' = RestartWithSystemDict(instance)
       ELSE instance' =
              LET a == nfc_poller_free(nfc_poller_stop(instance))
                  b == keys_dict_free(a)
              IN  nfc_scene_mf_classic_dict_attack_on_enter(b)
    /\ cause' = "NfcCustomEventDictAttackComplete"
    /\ UNCHANGED <<scene, next_scene, event_data, exit_calls, card, app, tpms>>

(* Mutation: a Success of the system pass is consumed and nothing follows *)
MutOnEventCompleteDropped ==
    /\ Delivered("NfcCustomEventDictAttackComplete")
    /\ IF instance.scene_state = DictAttackStateUserDictInProgress
       THEN instance' = RestartWithSystemDict(instance)
       ELSE UNCHANGED instance
    /\ cause' = "NfcCustomEventDictAttackComplete"
    /\ UNCHANGED <<scene, next_scene, event_data, exit_calls, card, app, tpms>>

OnEventComplete ==
    /\ Delivered("NfcCustomEventDictAttackComplete")
    /\ IF instance.scene_state = DictAttackStateUserDictInProgress
       THEN /\ instance' = RestartWithSystemDict(instance)
            /\ UNCHANGED <<scene, next_scene>>
       ELSE /\ Finalize
            /\ UNCHANGED instance
    /\ cause' = "NfcCustomEventDictAttackComplete"
    /\ UNCHANGED <<event_data, exit_calls, card, app, tpms>>

OnEventCardDetected ==
    /\ Delivered("NfcCustomEventCardDetected")
    /\ instance' = [instance EXCEPT !.dict_attack.card_state = TRUE]
    /\ UNCHANGED <<scene, next_scene, event_data, exit_calls, card, app, tpms, cause>>

OnEventCardLost ==
    /\ Delivered("NfcCustomEventCardLost")
    /\ instance' = [instance EXCEPT !.dict_attack.card_state = FALSE]
    /\ UNCHANGED <<scene, next_scene, event_data, exit_calls, card, app, tpms, cause>>

OnEventDataUpdate ==
    /\ Delivered("NfcCustomEventDictAttackDataUpdate")
    /\ instance' = nfc_scene_mf_classic_dict_attack_update_view(instance)
    /\ UNCHANGED <<scene, next_scene, event_data, exit_calls, card, app, tpms, cause>>

(* Mutation: Skip in the user state finalises even with a card present *)
MutOnEventSkipFinalizes ==
    /\ Delivered("NfcCustomEventDictAttackSkip")
    /\ instance' = nfc_device_set_data(instance, nfc_poller_get_data(instance))
    /\ Finalize
    /\ cause' = "NfcCustomEventDictAttackSkip"
    /\ UNCHANGED <<event_data, exit_calls, card, app, tpms>>

(* Mutation: Skip in the user state restarts even without a card *)
MutOnEventSkipRestarts ==
    /\ Delivered("NfcCustomEventDictAttackSkip")
    /\ LET i == nfc_device_set_data(instance, nfc_poller_get_data(instance)) IN
       IF i.scene_state = DictAttackStateUserDictInProgress
       THEN /\ instance' = RestartWithSystemDict(i)
            /\ UNCHANGED <<scene, next_scene>>
       ELSE /\ instance' = i
            /\ Finalize
    /\ cause' = "NfcCustomEventDictAttackSkip"
    /\ UNCHANGED <<event_data, exit_calls, card, app, tpms>>

(* Mutation: the card-present test is made before the state test *)
MutOnEventSkipCardFirst ==
    /\ Delivered("NfcCustomEventDictAttackSkip")
    /\ LET i == nfc_device_set_data(instance, nfc_poller_get_data(instance)) IN
       IF i.nfc_dict_context.is_card_present
       THEN /\ instance' = RestartWithSystemDict(i)
            /\ UNCHANGED <<scene, next_scene>>
       ELSE /\ instance' = i
            /\ Finalize
    /\ cause' = "NfcCustomEventDictAttackSkip"
    /\ UNCHANGED <<event_data, exit_calls, card, app, tpms>>

OnEventSkip ==
    /\ Delivered("NfcCustomEventDictAttackSkip")
    /\ LET i == nfc_device_set_data(instance, nfc_poller_get_data(instance)) IN
       IF i.scene_state = DictAttackStateUserDictInProgress
       THEN IF i.nfc_dict_context.is_card_present
            THEN /\ instance' = RestartWithSystemDict(i)
                 /\ UNCHANGED <<scene, next_scene>>
            ELSE /\ instance' = i
                 /\ Finalize
       ELSE /\ instance' = i
            /\ Finalize
    /\ cause' = "NfcCustomEventDictAttackSkip"
    /\ UNCHANGED <<event_data, exit_calls, card, app, tpms>>

(* SceneManagerEventTypeBack *)
OnEventBack ==
    /\ scene = "active"
    /\ scene' = "leaving"
    /\ next_scene' = "NfcSceneExitConfirm"
    /\ UNCHANGED <<instance, queue, event_data, exit_calls, card, app, tpms, cause>>

----------------------------------------------------------------------------
(* Scene lifecycle *)

OnEnter ==
    /\ scene = "idle"
    /\ instance' = nfc_scene_mf_classic_dict_attack_on_enter(instance)
    /\ scene' = "active"
    /\ UNCHANGED <<queue, next_scene, event_data, exit_calls, card, app, tpms, cause>>

(* The scene manager calls on_exit once, when the scene is left or the     *)
(* application stops.                                                       *)
OnExit ==
    /\ scene \in {"active", "leaving"}
    /\ instance' = nfc_scene_mf_classic_dict_attack_on_exit(instance)
    /\ scene' = "exited"
    /\ exit_calls' = exit_calls + 1
    /\ UNCHANGED <<queue, next_scene, event_data, card, app, tpms, cause>>

----------------------------------------------------------------------------
(* Walkie-talkie application (walki_talki.c)                                *)

NUM_CHANNELS == 22

(* furi_message_queue_alloc(8, sizeof(MyEvent)) *)
QueueCapacity == 8

(* FRS channel frequencies in Hz; frs_frequencies[c + 1] here is            *)
(* frs_frequencies[c] in the source.                                        *)
frs_frequencies ==
    << 462562500, 462587500, 462612500, 462637500, 462662500,
       462687500, 462712500, 467562500, 467587500, 467612500,
       467637500, 467662500, 467687500, 467712500, 462550000,
       462575000, 462600000, 462625000, 462650000, 462675000,
       462700000, 462725000 >>

(* Conversion to uint8_t *)
Uint8(n) == n % 256

NoFrame == [drawn |-> FALSE, channel_str |-> 0, frequency |-> 0,
            in_bounds |-> TRUE]

(* walkie_talkie_main up to its main loop: the app struct, the message      *)
(* queue (only MyEventTypeDone is ever put) and nothing drawn yet.          *)
WalkieTalkieStarted ==
    [ current_channel |-> 0, mute_status |-> FALSE,
      done_events |-> 0, keep_processing |-> TRUE, frame |-> NoFrame ]

(* Mutation: Up decrements without wrapping *)
MutChannelUp(current_channel) ==
    Uint8(current_channel - 1)

(* my_input_callback, InputKeyUp *)
ChannelUp(current_channel) ==
    Uint8(IF current_channel = 0 THEN NUM_CHANNELS - 1 ELSE current_channel - 1)

(* my_input_callback, InputKeyDown *)
ChannelDown(current_channel) ==
    Uint8((current_channel + 1) % NUM_CHANNELS)

(* The view port delivers input while the main loop runs *)
ViewPortShown == app.keep_processing

InputShortUp ==
    /\ ViewPortShown
    /\ app' = [app EXCEPT !.current_channel = ChannelUp(@)]
    /\ UNCHANGED <<instance, queue, scene, next_scene, event_data, exit_calls,
                   card, cause, tpms>>

InputShortDown ==
    /\ ViewPortShown
    /\ app' = [app EXCEPT !.current_channel = ChannelDown(@)]
    /\ UNCHANGED <<instance, queue, scene, next_scene, event_data, exit_calls,
                   card, cause, tpms>>

InputShortOk ==
    /\ ViewPortShown
    /\ app' = [app EXCEPT !.mute_status = ~@]
    /\ UNCHANGED <<instance, queue, scene, next_scene, event_data, exit_calls,
                   card, cause, tpms>>

(* furi_message_queue_put(queue, &event, FuriWaitForever) waits for room *)
InputShortBack ==
    /\ ViewPortShown
    /\ app.done_events < QueueCapacity
    /\ app' = [app EXCEPT !.done_events = @ + 1]
    /\ UNCHANGED <<instance, queue, scene, next_scene, event_data, exit_calls,
                   card, cause, tpms>>

(* Any other input: a key that is not handled or a type that is not         *)
(* InputTypeShort                                                           *)
InputIgnored ==
    /\ ViewPortShown
    /\ UNCHANGED vars

(* my_draw_callback: the channel number and the frequency looked up for it. *)
(* A lookup past the table reads whatever lies behind it.                   *)
Draw ==
    /\ ViewPortShown
    /\ LET c == app.current_channel IN
       IF c < NUM_CHANNELS
       THEN app' = [app EXCEPT !.frame =
                       [drawn |-> TRUE, channel_str |-> c + 1,
                        frequency |-> frs_frequencies[c + 1],
                        in_bounds |-> TRUE]]
       ELSE \E garbage \in {0, frs_frequencies[1]} :
              app' = [app EXCEPT !.frame =
                       [drawn |-> TRUE, channel_str |-> c + 1,
                        frequency |-> garbage, in_bounds |-> FALSE]]
    /\ UNCHANGED <<instance, queue, scene, next_scene, event_data, exit_calls,
                   card, cause, tpms>>

(* The main loop takes a MyEventTypeDone and stops *)
MainLoopDone ==
    /\ app.keep_processing
    /\ app.done_events > 0
    /\ app' = [app EXCEPT !.done_events = @ - 1, !.keep_processing = FALSE]
    /\ UNCHANGED <<instance, queue, scene, next_scene, event_data, exit_calls,
                   card, cause, tpms>>

----------------------------------------------------------------------------
(* TPMS generic block (tpms_generic.c)                                      *)

(* uint64_t data is held as its 8 bytes, most significant first: TLC's      *)
(* integers are narrower than 64 bits.                                      *)
DataBytes == 8

(* (data >> (i * 8)) & 0xFF *)
ByteAt(data, i) == data[DataBytes - i]

(* data << 8 | byte, in 64 bits: the top byte is shifted out *)
ShiftInByte(data, byte) == Tail(data) \o <<byte>>

(* Mutation: the bytes are stored least-significant first *)
MutKeyData(data) ==
    [k \in 1..DataBytes |-> ByteAt(data, k - 1)]

(* serialize: key_data[sizeof(uint64_t) - i - 1] = (data >> (i * 8)) & 0xFF; *)
(* key_data[k] here is key_data[k - 1] in the source.                        *)
KeyData(data) ==
    [k \in 1..DataBytes |-> ByteAt(data, DataBytes - k)]

(* deserialize: for i in 0..7, data = data << 8 | key_data[i] *)
RECURSIVE ShiftInKeyData(_, _, _)
ShiftInKeyData(data, key_data, i) ==
    IF i > DataBytes THEN data
    ELSE ShiftInKeyData(ShiftInByte(data, key_data[i]), key_data, i + 1)

(* A key file: the lines written, in order.  flipper_format_read_* looks    *)
(* for the key from the current position on.                                *)
Line(key, value) == [key |-> key, value |-> value]

flipper_format_read(file, pos, key) ==
    LET at == { k \in pos..Len(file) : file[k].key = key } IN
    IF at = {}
    THEN [found |-> FALSE, value |-> 0, pos |-> pos]
    ELSE LET k == CHOOSE k \in at : \A j \in at : k <= j
         IN  [found |-> TRUE, value |-> file[k].value, pos |-> k + 1]

(* tpms_block_generic_get_preset_name *)
tpms_block_generic_get_preset_name(preset_name) ==
    CASE preset_name = "AM270" -> "FuriHalSubGhzPresetOok270Async"
      [] preset_name = "AM650" -> "FuriHalSubGhzPresetOok650Async"
      [] preset_name = "FM238" -> "FuriHalSubGhzPreset2FSKDev238Async"
      [] preset_name = "FM476" -> "FuriHalSubGhzPreset2FSKDev476Async"
      [] OTHER -> "FuriHalSubGhzPresetCustom"

(* The flipper_format_write_* calls of serialize in order, each with the    *)
(* status returned when it fails.  Id, Bit and Batt go through a uint32_t   *)
(* temp_data, which is at least as wide as the fields.                      *)
SerializeWrites(block, preset_name, curr_ts) ==
    << [line |-> Line("Filetype", "TPMS"),
        err |-> "SubGhzProtocolStatusErrorParserHeader"],
       [line |-> Line("Frequency", 433920000),
        err |-> "SubGhzProtocolStatusErrorParserFrequency"],
       [line |-> Line("Preset", tpms_block_generic_get_preset_name(preset_name)),
        err |-> "SubGhzProtocolStatusErrorParserPreset"] >>
    \o (IF tpms_block_generic_get_preset_name(preset_name) =
             "FuriHalSubGhzPresetCustom"
        THEN << [line |-> Line("Custom_preset_module", "CC1101"),
                 err |-> "SubGhzProtocolStatusErrorParserCustomPreset"],
                [line |-> Line("Custom_preset_data", <<0>>),
                 err |-> "SubGhzProtocolStatusErrorParserCustomPreset"] >>
        ELSE << >>)
    \o << [line |-> Line("Protocol", block.protocol_name),
           err |-> "SubGhzProtocolStatusErrorParserProtocolName"],
          [line |-> Line("Id", block.id),
           err |-> "SubGhzProtocolStatusErrorParserOthers"],
          [line |-> Line("Bit", block.data_count_bit),
           err |-> "SubGhzProtocolStatusErrorParserBitCount"],
          [line |-> Line("Data", KeyData(block.data)),
           err |-> "SubGhzProtocolStatusErrorParserOthers"],
          [line |-> Line("Batt", block.battery_low),
           err |-> "SubGhzProtocolStatusErrorParserOthers"],
          [line |-> Line("Pressure", block.pressure),
           err |-> "SubGhzProtocolStatusErrorParserOthers"],
          [line |-> Line("Ts", curr_ts),
           err |-> "SubGhzProtocolStatusErrorParserOthers"],
          [line |-> Line("Temp", block.temperature),
           err |-> "SubGhzProtocolStatusErrorParserOthers"] >>

(* tpms_block_generic_serialize; failing names the key whose write fails,   *)
(* "none" when every write succeeds.  The stream is cleaned first, so the   *)
(* file holds the lines written before the failure and nothing else.        *)
tpms_block_generic_serialize(block, preset_name, curr_ts, failing) ==
    LET writes == SerializeWrites(block, preset_name, curr_ts)
        failed == { k \in 1..Len(writes) : writes[k].line.key = failing }
    IN
    IF failed # {}
    THEN LET first == CHOOSE k \in failed : \A j \in failed : k <= j
         IN  [file |-> [k \in 1..(first - 1) |-> writes[k].line],
              res |-> writes[first].err]
    ELSE [file |-> [k \in 1..Len(writes) |-> writes[k].line],
          res |-> "SubGhzProtocolStatusOk"]

(* tpms_block_generic_deserialize: the fields read before a missing key     *)
(* stay assigned.                                                           *)
tpms_block_generic_deserialize(block, file, rewound) ==
    LET id == flipper_format_read(file, 1, "Id")
        b1 == [block EXCEPT !.id = id.value]
        bit == flipper_format_read(file, id.pos, "Bit")
        b2 == [b1 EXCEPT !.data_count_bit = Uint8(bit.value)]
        data == flipper_format_read(file, bit.pos, "Data")
        b3 == [b2 EXCEPT !.data = ShiftInKeyData(b2.data, data.value, 1)]
        batt == flipper_format_read(file, data.pos, "Batt")
        b4 == [b3 EXCEPT !.battery_low = Uint8(batt.value)]
        pressure == flipper_format_read(file, batt.pos, "Pressure")
        b5 == [b4 EXCEPT !.pressure = pressure.value]
        ts == flipper_format_read(file, pressure.pos, "Ts")
        b6 == [b5 EXCEPT !.timestamp = ts.value]
        temp == flipper_format_read(file, ts.pos, "Temp")
        b7 == [b6 EXCEPT !.temperature = temp.value]
    IN
    IF ~rewound
    THEN [block |-> block, res |-> "SubGhzProtocolStatusErrorParserOthers"]
    ELSE IF ~id.found
    THEN [block |-> block, res |-> "SubGhzProtocolStatusErrorParserOthers"]
    ELSE IF ~bit.found
    THEN [block |-> b1, res |-> "SubGhzProtocolStatusErrorParserBitCount"]
    ELSE IF ~data.found
    THEN [block |-> b2, res |-> "SubGhzProtocolStatusErrorParserOthers"]
    ELSE IF ~batt.found
    THEN [block |-> b3, res |-> "SubGhzProtocolStatusErrorParserOthers"]
    ELSE IF ~pressure.found
    THEN [block |-> b4, res |-> "SubGhzProtocolStatusErrorParserOthers"]
    ELSE IF ~ts.found
    THEN [block |-> b5, res |-> "SubGhzProtocolStatusErrorParserOthers"]
    ELSE IF ~temp.found
    THEN [block |-> b6, res |-> "SubGhzProtocolStatusErrorParserOthers"]
    ELSE [block |-> b7, res |-> "SubGhzProtocolStatusOk"]

(* tpms_block_generic_deserialize_check_count_bit *)
tpms_block_generic_deserialize_check_count_bit(block, file, rewound, count_bit) ==
    LET ret == tpms_block_generic_deserialize(block, file, rewound) IN
    IF ret.res # "SubGhzProtocolStatusOk"
    THEN ret
    ELSE IF ret.block.data_count_bit # count_bit
    THEN [ret EXCEPT !.res = "SubGhzProtocolStatusErrorValueBitCount"]
    ELSE ret

(* The blocks a decoder produces: data as 8 bytes, data_count_bit and       *)
(* battery_low in 8 bits.                                                   *)
TpmsBlock(id, bit, data, batt) ==
    [ protocol_name |-> "Schrader GG4", id |-> id, data_count_bit |-> bit,
      data |-> data, battery_low |-> batt, pressure |-> 2,
      temperature |-> 20, timestamp |-> 0 ]

TpmsBlocks ==
    { TpmsBlock(1, 64, <<0, 0, 0, 0, 0, 0, 0, 0>>, 0),
      TpmsBlock(70000, 255, <<1, 2, 3, 4, 5, 6, 7, 200>>, 1) }

(* The writes of serialize that are let fail *)
FailingWrites ==
    { "none", "Filetype", "Custom_preset_data", "Id", "Bit", "Data", "Batt",
      "Temp" }

(* furi_hal_rtc_get_datetime as a timestamp *)
CurrTs == 1000

(* A key file that did not come from serialize: its Bit does not fit 8 bits *)
(* (511 is stored as 255)                                                    *)
ForeignFile ==
    << Line("Filetype", "TPMS"), Line("Protocol", "Schrader GG4"),
       Line("Id", 1), Line("Bit", 511),
       Line("Data", <<0, 0, 0, 0, 0, 0, 0, 9>>), Line("Batt", 0),
       Line("Pressure", 2), Line("Ts", 500), Line("Temp", 20) >>

NoCall == [ call |-> "none", res |-> "none", deserialized |-> "none",
            count_bit |-> 0 ]

(* tpms.saved: the block as it was when serialize last wrote the file;      *)
(* tpms.saved_ok: every write of that call succeeded.                       *)
TpmsIdle ==
    [ block |-> TpmsBlock(1, 64, <<0, 0, 0, 0, 0, 0, 0, 0>>, 0),
      file |-> << >>,
      saved |-> TpmsBlock(1, 64, <<0, 0, 0, 0, 0, 0, 0, 0>>, 0),
      saved_ok |-> FALSE, last |-> NoCall ]

(* A decoder fills the block with a new reading *)
TpmsReceive ==
    /\ \E block \in TpmsBlocks :
         tpms' = [tpms EXCEPT !.block = block, !.last = NoCall]
    /\ UNCHANGED <<instance, queue, scene, next_scene, event_data, exit_calls,
                   card, cause, app>>

TpmsSerialize ==
    /\ \E preset_name \in {"AM650", "AM_custom"}, failing \in FailingWrites :
         LET r == tpms_block_generic_serialize(tpms.block, preset_name, CurrTs,
                                               failing)
         IN  tpms' = [tpms EXCEPT
                        !.file = r.file,
                        !.saved = tpms.block,
                        !.saved_ok = (r.res = "SubGhzProtocolStatusOk"),
                        !.last = [call |-> "serialize", res |-> r.res,
                                  deserialized |-> "none", count_bit |-> 0]]
    /\ UNCHANGED <<instance, queue, scene, next_scene, event_data, exit_calls,
                   card, cause, app>>

TpmsDeserialize ==
    /\ \E rewound \in BOOLEAN :
         LET r == tpms_block_generic_deserialize(tpms.block, tpms.file, rewound)
         IN  tpms' = [tpms EXCEPT
                        !.block = r.block,
                        !.last = [call |-> "deserialize", res |-> r.res,
                                  deserialized |-> r.res, count_bit |-> 0]]
    /\ UNCHANGED <<instance, queue, scene, next_scene, event_data, exit_calls,
                   card, cause, app>>

TpmsDeserializeCheckCountBit ==
    /\ \E rewound \in BOOLEAN, count_bit \in {255, 320} :
         LET r == tpms_block_generic_deserialize_check_count_bit(
                      tpms.block, tpms.file, rewound, count_bit)
             d == tpms_block_generic_deserialize(tpms.block, tpms.file, rewound)
         IN  tpms' = [tpms EXCEPT
                        !.block = r.block,
                        !.last = [call |-> "deserialize_check_count_bit",
                                  res |-> r.res, deserialized |-> d.res,
                                  count_bit |-> count_bit]]
    /\ UNCHANGED <<instance, queue, scene, next_scene, event_data, exit_calls,
                   card, cause, app>>

----------------------------------------------------------------------------
(* Initial states: the application is constructed, the scene not entered.   *)
(* The system dictionary ships with the firmware; the user dictionary is    *)
(* absent, empty or holds some keys; working copies of an earlier run may   *)
(* be left over.                                                            *)

InitialStorage ==
    { [p \in Paths |->
         CASE p = NFC_APP_MF_CLASSIC_DICT_USER_PATH -> u
           [] p = NFC_APP_MF_CLASSIC_DICT_SYSTEM_PATH -> File(s)
           [] OTHER -> n] :
      u \in {NoFile} \cup {File(k) : k \in 0..MaxKeys},
      s \in 1..MaxKeys,
      n \in {File(0)} }

SceneNotEntered ==
    /\ queue = <<>>
    /\ scene = "idle"
    /\ next_scene = "none"
    /\ event_data = NoEventData
    /\ exit_calls = 0
    /\ cause = "none"

Constructed ==
    /\ SceneNotEntered
    /\ app = WalkieTalkieStarted
    /\ tpms = TpmsIdle

Init ==
    /\ instance \in { InitInstance(files) : files \in InitialStorage }
    /\ card = BlankCard
    /\ Constructed

Worker ==
    \/ WorkerCardDetected
    \/ WorkerCardLost
    \/ WorkerRequestMode
    \/ WorkerRequestKey
    \/ WorkerDataUpdate
    \/ WorkerNextSector
    \/ WorkerFoundKey
    \/ WorkerKeyAttackStart
    \/ WorkerKeyAttackStop
    \/ WorkerSuccess

OnEvent ==
    \/ OnEventComplete
    \/ OnEventCardDetected
    \/ OnEventCardLost
    \/ OnEventDataUpdate
    \/ OnEventSkip
    \/ OnEventBack

Next ==
    \/ OnEnter
    \/ Worker
    \/ SkipPressed
    \/ OnEvent
    \/ OnExit

Spec == Init /\ [][Next]_vars

(* The same scene with a card whose session reports progress: both         *)
(* dictionaries present, one candidate each.                                *)
OneKeyStorage ==
    [p \in Paths |->
       IF p \in {NFC_APP_MF_CLASSIC_DICT_USER_NESTED_PATH,
                 NFC_APP_MF_CLASSIC_DICT_SYSTEM_NESTED_PATH}
       THEN File(0) ELSE File(1)]

InitCard ==
    /\ instance = InitInstance(OneKeyStorage)
    /\ card = KeyedCard
    /\ Constructed

SpecCard == InitCard /\ [][Next]_vars

(* on_exit invoked a second time on the exited scene.  The poller and the   *)
(* dictionary pointers dangle by then: the calls on them are undefined, the *)
(* handler may run to its end or the firmware may abort.                    *)
OnExitAgain ==
    /\ scene = "exited"
    /\ exit_calls < 2
    /\ instance' = nfc_scene_mf_classic_dict_attack_on_exit(instance)
    /\ scene' \in {"exited", "crashed"}
    /\ exit_calls' = exit_calls + 1
    /\ UNCHANGED <<queue, next_scene, event_data, card, app, tpms, cause>>

NextExitTwice == Next \/ OnExitAgain

SpecExitTwice == Init /\ [][NextExitTwice]_vars

(* The same scene on a storage from which the system dictionary is         *)
(* missing: copying it fails and KeysDictModeOpenExisting yields no handle. *)
(* prepare_view checks neither and goes on to call keys_dict on the handle  *)
(* it did not get, which is undefined: the handlers may run on as written   *)
(* or the firmware may abort at any later point.                            *)
NoSystemDictStorage ==
    { [p \in Paths |->
         CASE p = NFC_APP_MF_CLASSIC_DICT_USER_PATH -> u
           [] p = NFC_APP_MF_CLASSIC_DICT_SYSTEM_PATH -> NoFile
           [] OTHER -> File(0)] :
      u \in {NoFile} \cup {File(k) : k \in 0..MaxKeys} }

InitNoSystemDict ==
    /\ instance \in { InitInstance(files) : files \in NoSystemDictStorage }
    /\ card = BlankCard
    /\ Constructed

Abort ==
    /\ scene \in {"active", "leaving"}
    /\ "dict_open_failed" \in instance.faults
    /\ scene' = "crashed"
    /\ UNCHANGED <<instance, queue, next_scene, event_data, exit_calls, card, app, tpms,
                   cause>>

NextNoSystemDict == Next \/ Abort

SpecNoSystemDict == InitNoSystemDict /\ [][NextNoSystemDict]_vars

(* The scene while it is shown and not torn down: no Back, no on_exit, both *)
(* dictionaries present with one candidate each.  The view dispatcher's     *)
(* loop takes queued custom events one after the other, so a handler that   *)
(* stays enabled is eventually run.                                         *)
OnCustomEvent ==
    \/ OnEventComplete
    \/ OnEventCardDetected
    \/ OnEventCardLost
    \/ OnEventDataUpdate
    \/ OnEventSkip

NextShown ==
    \/ OnEnter
    \/ Worker
    \/ SkipPressed
    \/ OnCustomEvent

InitShown ==
    /\ instance = InitInstance(OneKeyStorage)
    /\ card = BlankCard
    /\ Constructed

SpecShown == InitShown /\ [][NextShown]_vars /\ WF_vars(OnCustomEvent)

(* The same scene with a user dictionary long enough for the progress      *)
(* notification of RequestKey to come up.                                   *)
LongDict == 11

LongDictStorage ==
    [p \in Paths |->
       CASE p = NFC_APP_MF_CLASSIC_DICT_USER_PATH -> File(LongDict)
         [] p = NFC_APP_MF_CLASSIC_DICT_SYSTEM_PATH -> File(1)
         [] OTHER -> File(0)]

InitLongDict ==
    /\ instance = InitInstance(LongDictStorage)
    /\ card = BlankCard
    /\ Constructed

SpecLongDict == InitLongDict /\ [][Next]_vars

(* The walkie-talkie application on its own *)
InitWalkieTalkie ==
    /\ instance = InitInstance(OneKeyStorage)
    /\ card = BlankCard
    /\ SceneNotEntered
    /\ app = WalkieTalkieStarted
    /\ tpms = TpmsIdle

NextWalkieTalkie ==
    \/ InputShortUp
    \/ InputShortDown
    \/ InputShortOk
    \/ InputShortBack
    \/ InputIgnored
    \/ Draw
    \/ MainLoopDone

SpecWalkieTalkie == InitWalkieTalkie /\ [][NextWalkieTalkie]_vars

(* The TPMS generic block on its own: some reading in the block, and the    *)
(* key file empty or brought in from elsewhere.                             *)
InitTpms ==
    /\ instance = InitInstance(OneKeyStorage)
    /\ card = BlankCard
    /\ SceneNotEntered
    /\ app = WalkieTalkieStarted
    /\ tpms \in { [TpmsIdle EXCEPT !.block = block, !.file = file] :
                     block \in TpmsBlocks, file \in { << >>, ForeignFile } }

NextTpms ==
    \/ TpmsReceive
    \/ TpmsSerialize
    \/ TpmsDeserialize
    \/ TpmsDeserializeCheckCountBit

SpecTpms == InitTpms /\ [][NextTpms]_vars

----------------------------------------------------------------------------
(* Shorthands for the properties *)

ctx == instance.nfc_dict_context

InUserState == instance.scene_state = DictAttackStateUserDictInProgress
InSystemState == instance.scene_state = DictAttackStateSystemDictInProgress

SystemDictOpen ==
    /\ instance.dict.open
    /\ instance.dict.path = NFC_APP_MF_CLASSIC_DICT_SYSTEM_PATH

----------------------------------------------------------------------------
(* C1: between two rewinds, the k-th RequestKey (k = dict_keys_current + 1) *)
(* on a dictionary of N candidates supplies the k-th candidate of the file  *)
(* and raises dict_keys_current by one while k <= N; from the (N+1)-th on   *)
(* it reports no key and dict_keys_current stays.                           *)
C1_RequestKeySequence ==
    [][WorkerRequestKey =>
         LET path == instance.dict.path
             N == instance.storage[path].keys
             k == ctx.dict_keys_current + 1
         IN  IF k <= N
             THEN /\ event_data'.key_provided
                  /\ event_data'.key = <<path, k>>
                  /\ ctx'.dict_keys_current = k
             ELSE /\ ~event_data'.key_provided
                  /\ ctx'.dict_keys_current = ctx.dict_keys_current]_vars

(* N successful requests and one refused request on a full dictionary *)
C1_Witness ==
    /\ event_data.requested
    /\ ~event_data.key_provided
    /\ instance.dict.total = MaxKeys
    /\ ctx.dict_keys_current = MaxKeys

(* C2 (its "in particular" clause): an AttackComplete handled in the system *)
(* state was sent by the system-phase session, never by the user-phase      *)
(* session that a Skip has already torn down.                               *)
C2_NoStaleComplete ==
    [][(OnEventComplete /\ InSystemState) =>
          Head(queue).origin = instance.poller.id]_vars

(* C3: no dictionary is released under a live session, no working copy is   *)
(* staged under an open handle, no handle is used after its release, and a  *)
(* running session always has an open dictionary.                           *)
C3_ReleaseOrder ==
    /\ instance.faults \cap
         { "dict_released_under_session", "staging_with_open_handle",
           "dict_used_after_release" } = {}
    /\ instance.poller.status = "running" => instance.dict.open

(* Torn down after a user -> system transition *)
C3_Witness ==
    /\ scene = "exited"
    /\ instance.poller.id = 2
    /\ instance.poller.status = "freed"
    /\ ~instance.dict.open

(* C4: after each of two teardowns in a row nothing was stopped, freed or   *)
(* released a second time, and AttackProgress is all zero.                  *)
C4_TeardownIdempotent ==
    exit_calls >= 1 =>
        /\ instance.faults \cap
             { "session_stopped_after_release", "session_released_twice",
               "dict_released_twice" } = {}
        /\ scene # "crashed"
        /\ ctx = ZeroContext

(* C5: after teardown every AttackProgress field has its default and the    *)
(* state is DictAttackStateUserDictInProgress.                              *)
C5_TeardownZeroesProgress ==
    scene = "exited" => (ctx = ZeroContext /\ InUserState)

(* C6: with the user dictionary absent or empty, the entered scene is in    *)
(* the system state, the system dictionary is the one open handle, and no   *)
(* key is ever served from the user dictionary.                             *)
C6_EmptyUserDictSkipped ==
    LET user == instance.storage[NFC_APP_MF_CLASSIC_DICT_USER_PATH] IN
    ((~user.present \/ user.keys = 0) /\ scene \in {"active", "leaving"}) =>
        /\ InSystemState
        /\ SystemDictOpen
        /\ "dict_opened_over_open_handle" \notin instance.faults
        /\ event_data.key[1] # NFC_APP_MF_CLASSIC_DICT_USER_PATH

(* The user dictionary exists, is empty, and a key came from the system one *)
C6_Witness ==
    LET user == instance.storage[NFC_APP_MF_CLASSIC_DICT_USER_PATH] IN
    /\ user.present /\ user.keys = 0
    /\ scene = "active"
    /\ event_data.key_provided
    /\ event_data.key[1] = NFC_APP_MF_CLASSIC_DICT_SYSTEM_PATH

(* C7: Skip handled in the user state with a card present stays in the      *)
(* scene, releases the old session, enters the system state with the entry  *)
(* actions re-run and starts a new session.                                 *)
C7_SkipWithCardRestarts ==
    [][(OnEventSkip /\ InUserState /\ ctx.is_card_present) =>
          /\ scene' = "active" /\ next_scene' = "none"
          /\ InSystemState'
          /\ SystemDictOpen'
          /\ ctx'.dict_keys_current = 0
          /\ ctx'.dict_keys_total = instance'.dict.total
          /\ instance'.poller.status = "running"
          /\ instance'.poller.id = instance.poller.id + 1
          /\ instance'.faults = {}]_vars

C7_Witness ==
    /\ scene = "active"
    /\ cause = "NfcCustomEventDictAttackSkip"
    /\ InSystemState
    /\ instance.poller.id = 2
    /\ instance.poller.status = "running"

(* C8: Skip handled in the user state without a card finalises at once:     *)
(* the read-success scene is requested, the state stays user and no session *)
(* is started.  No card counts as present at scene entry, before the       *)
(* session has reported one.                                                *)
C8_SkipWithoutCardFinalizes ==
    /\ [][(OnEventSkip /\ InUserState /\ ~ctx.is_card_present) =>
            /\ scene' = "leaving" /\ next_scene' = "NfcSceneReadSuccess"
            /\ InUserState'
            /\ instance'.poller = instance.poller
            /\ instance'.dict = instance.dict]_vars
    /\ [][OnEnter => ~ctx'.is_card_present]_vars

C8_Witness ==
    /\ scene = "leaving"
    /\ next_scene = "NfcSceneReadSuccess"
    /\ cause = "NfcCustomEventDictAttackSkip"
    /\ InUserState
    /\ instance.poller.id = 1

(* C9: Skip handled in the system state finalises, card or no card, and     *)
(* starts no session.                                                       *)
C9_SkipInSystemFinalizes ==
    [][(OnEventSkip /\ InSystemState) =>
          /\ scene' = "leaving" /\ next_scene' = "NfcSceneReadSuccess"
          /\ InSystemState'
          /\ instance'.poller = instance.poller
          /\ instance'.dict = instance.dict]_vars

C9_Witness ==
    /\ scene = "leaving"
    /\ next_scene = "NfcSceneReadSuccess"
    /\ cause = "NfcCustomEventDictAttackSkip"
    /\ InSystemState
    /\ ctx.is_card_present

(* C10: the state is always one of the two DictAttackState values, and      *)
(* from the system state every step short of teardown leaves it there.      *)
C10_PhaseOneWay ==
    /\ [](InUserState \/ InSystemState)
    /\ [][(scene = "active" /\ InSystemState /\ scene' # "exited") =>
             InSystemState']_vars

(* In the system state after a transition, with an event handled there *)
C10_Witness ==
    /\ scene = "active"
    /\ InSystemState
    /\ instance.poller.id = 2
    /\ event_data.key_provided

(* C11: handling Success in the user state leaves the scene in the system   *)
(* state with a new running session, dict_keys_current 0 and                *)
(* dict_keys_total the key count of the system dictionary; RequestMode      *)
(* touches neither counter, so the first RequestMode of the new session     *)
(* sees the same.                                                           *)
C11_SuccessRestartsOnSystemDict ==
    /\ [][(OnEventComplete /\ InUserState) =>
            /\ InSystemState'
            /\ SystemDictOpen'
            /\ instance'.poller.status = "running"
            /\ instance'.poller.id = instance.poller.id + 1
            /\ ctx'.dict_keys_current = 0
            /\ ctx'.dict_keys_total =
                 instance.storage[NFC_APP_MF_CLASSIC_DICT_SYSTEM_PATH].keys]_vars
    /\ [][(WorkerRequestMode /\ InSystemState) =>
            /\ ctx.dict_keys_total =
                 instance.storage[NFC_APP_MF_CLASSIC_DICT_SYSTEM_PATH].keys
            /\ ctx'.dict_keys_total = ctx.dict_keys_total
            /\ ctx'.dict_keys_current = ctx.dict_keys_current]_vars

(* Restarted by Success, the two dictionaries differing in size, and the    *)
(* new session has already reported *)
C11_Witness ==
    /\ scene = "active"
    /\ cause = "NfcCustomEventDictAttackComplete"
    /\ InSystemState
    /\ instance.poller.id = 2
    /\ instance.storage[NFC_APP_MF_CLASSIC_DICT_USER_PATH].keys >
         instance.storage[NFC_APP_MF_CLASSIC_DICT_SYSTEM_PATH].keys
    /\ ctx.dict_keys_total =
         instance.storage[NFC_APP_MF_CLASSIC_DICT_SYSTEM_PATH].keys
    /\ ctx.dict_keys_current = 0
    /\ \E n \in 1..Len(queue) :
         queue[n] = [event |-> "NfcCustomEventDictAttackDataUpdate", origin |-> 2]

C13_CurrentAtMostTotal ==
    /\ ctx.dict_keys_current <= ctx.dict_keys_total
    /\ instance.dict.open => ctx.dict_keys_total = instance.dict.total

(* The system pass, entered from a user pass, has used up its dictionary *)
C13_Witness ==
    /\ InSystemState
    /\ instance.poller.id = 2
    /\ instance.dict.open
    /\ instance.storage[NFC_APP_MF_CLASSIC_DICT_USER_PATH].keys >
         instance.dict.total
    /\ ctx.dict_keys_current = ctx.dict_keys_total
    /\ ctx.dict_keys_current > 0
    /\ event_data.requested /\ ~event_data.key_provided

(* C14: at most one dictionary handle is open at any time: a handle is      *)
(* opened only after the previous one was released, none is released twice, *)
(* a running phase has its handle, and none is left open when the run ends  *)
(* by teardown, whichever of success, skip or Back led there.               *)
C14_OneDictHandle ==
    /\ instance.faults \cap {"dict_opened_over_open_handle",
                             "staging_with_open_handle",
                             "dict_released_twice"} = {}
    /\ scene \in {"idle", "exited"} => ~instance.dict.open
    /\ scene \in {"active", "leaving"} => instance.dict.open

(* Torn down after an empty user dictionary was opened, released and        *)
(* replaced by the system dictionary, and a later skip ended the run        *)
C14_Witness ==
    /\ scene = "exited"
    /\ instance.storage[NFC_APP_MF_CLASSIC_DICT_USER_PATH] = File(0)
    /\ cause = "NfcCustomEventDictAttackSkip"
    /\ ~instance.dict.open
    /\ instance.faults = {}

(* C15: at most one card session exists at any time: a session is started   *)
(* only after the previous one was stopped and freed, a running scene has   *)
(* exactly one, and by the end of teardown every session has been stopped   *)
(* and freed exactly once.                                                  *)
C15_OneSession ==
    /\ [](/\ instance.faults \cap {"session_started_over_live_session",
                                   "session_stopped_after_release",
                                   "session_released_twice"} = {}
          /\ scene = "idle" => instance.poller.status = "none"
          /\ scene \in {"active", "leaving"} =>
               instance.poller.status \in {"running", "done"}
          /\ scene = "exited" => instance.poller.status = "freed")
    /\ [][instance'.poller.id # instance.poller.id =>
            /\ instance'.poller.id = instance.poller.id + 1
            /\ instance'.poller.status = "running"]_vars

(* Torn down after Success of the user pass had replaced the first session  *)
(* by a second one *)
C15_Witness ==
    /\ scene = "exited"
    /\ instance.poller.id = 2
    /\ instance.poller.status = "freed"
    /\ cause = "NfcCustomEventDictAttackComplete"
    /\ instance.faults = {}

(* C16, as stated: a Success of the user-dictionary pass does not write     *)
(* the device record.                                                       *)
C16_UserSuccessDoesNotPersist ==
    [][(WorkerSuccess /\ InUserState) =>
         instance'.nfc_device = instance.nfc_device]_vars

(* C16, amended: the device record is written with the session's data at    *)
(* every Success, of the user pass as well as of the system pass, and at    *)
(* every handled Skip, and by no other step.                                *)
C16_PersistAtSuccessAndSkip ==
    /\ [][(WorkerSuccess \/ OnEventSkip) =>
            instance'.nfc_device = nfc_poller_get_data(instance)]_vars
    /\ [][instance'.nfc_device # instance.nfc_device =>
            (WorkerSuccess \/ OnEventSkip)]_vars

(* The user pass found a key and succeeded; the system pass was started     *)
(* with the device record already holding that key                          *)
C16_Witness ==
    /\ scene = "active"
    /\ InSystemState
    /\ cause = "NfcCustomEventDictAttackComplete"
    /\ instance.poller.id = 2
    /\ instance.poller.status = "running"
    /\ instance.poller.data = 0
    /\ instance.nfc_device = 1

(* C17: once a staging step has failed or the system dictionary could not  *)
(* be opened at phase entry, no card session is started for that phase.     *)
C17_FailedEntryStartsNoSession ==
    instance.faults \cap {"staging_failed", "dict_open_failed"} # {} =>
        instance.poller.status \notin {"running", "done"}

(* C18: after every DataUpdate the callback handles, whenever it arrives    *)
(* relative to RequestMode and whatever the snapshot holds,                 *)
(* sectors_read <= sectors_total.                                           *)
C18_SectorsReadAtMostTotal ==
    [][WorkerDataUpdate => ctx'.sectors_read <= ctx'.sectors_total]_vars

(* C19: in every reachable state with sectors_total > 0,                    *)
(* current_sector < sectors_total.                                          *)
C19_CurrentSectorInRange ==
    ctx.sectors_total > 0 => ctx.current_sector < ctx.sectors_total

(* C20: with queued custom events handled fairly and no teardown, a        *)
(* session that has emitted Success does not stay stopped for ever: from    *)
(* the user state the run eventually has a running system-phase session (or *)
(* a skip has finalised it), from the system state it is eventually         *)
(* finalised to the read-success scene; and the step that handles the       *)
(* Success does exactly that: restart in the user state, finalise in the    *)
(* system state.                                                            *)
C20_SuccessHasOutcome ==
    /\ (scene = "active" /\ instance.poller.status = "done" /\ InUserState)
         ~> (\/ InSystemState /\ instance.poller.status = "running"
             \/ scene = "leaving" /\ next_scene = "NfcSceneReadSuccess")
    /\ (scene = "active" /\ instance.poller.status = "done" /\ InSystemState)
         ~> (scene = "leaving" /\ next_scene = "NfcSceneReadSuccess")
    /\ [][(OnEventComplete /\ InUserState) =>
            /\ InSystemState'
            /\ instance'.poller.status = "running"
            /\ instance'.poller.id = instance.poller.id + 1]_vars
    /\ [][(OnEventComplete /\ InSystemState) =>
            /\ scene' = "leaving"
            /\ next_scene' = "NfcSceneReadSuccess"]_vars

(* Success of the user pass restarted the run, Success of the system pass   *)
(* finalised it *)
C20_Witness ==
    /\ scene = "leaving"
    /\ next_scene = "NfcSceneReadSuccess"
    /\ cause = "NfcCustomEventDictAttackComplete"
    /\ InSystemState
    /\ instance.poller.id = 2
    /\ instance.poller.status = "done"
    /\ queue = <<>>

C22_RequestKeyThrottled ==
    [][WorkerRequestKey =>
         LET N == instance.dict.total
             notified == queue' # queue
         IN  /\ notified <=>
                  /\ event_data'.key_provided
                  /\ ctx'.dict_keys_current % 10 = 0
             /\ notified <=>
                  /\ ctx'.dict_keys_current = ctx.dict_keys_current + 1
                  /\ ctx'.dict_keys_current \in
                       { 10 * k : k \in 1..(N \div 10) }
             /\ notified =>
                  queue' = Append(queue,
                      [event |-> "NfcCustomEventDictAttackDataUpdate",
                       origin |-> instance.poller.id])
             /\ ~KeyAvailable(instance) => ~notified]_vars

(* The tenth key of the user dictionary has just been supplied and the      *)
(* notification is queued                                                   *)
C22_Witness ==
    /\ scene = "active"
    /\ event_data.requested /\ event_data.key_provided
    /\ ctx.dict_keys_current = 10
    /\ instance.dict.total = LongDict
    /\ queue # <<>>
    /\ queue[Len(queue)] = [event |-> "NfcCustomEventDictAttackDataUpdate",
                            origin |-> instance.poller.id]

(* C23: every refresh of the presentation made while is_key_attack is true  *)
(* calls dict_attack_set_key_attack and none of the progress setters; every *)
(* refresh made while it is false calls dict_attack_reset_key_attack and    *)
(* all ten progress setters.  The refreshes are those of the DataUpdate     *)
(* custom event and of phase entry (on_enter and both user -> system        *)
(* restarts), and a restart refreshes by the is_key_attack the previous     *)
(* session left.                                                            *)
C23_KeyAttackSuppressesProgress ==
    /\ [][(\/ OnEventDataUpdate \/ OnEnter
           \/ OnEventComplete /\ InUserState
           \/ OnEventSkip /\ InUserState /\ ctx.is_card_present) =>
            /\ ctx'.is_key_attack = ctx.is_key_attack
            /\ IF ctx.is_key_attack
               THEN instance'.dict_attack.setters =
                        { "dict_attack_set_key_attack" }
               ELSE instance'.dict_attack.setters =
                        { "dict_attack_reset_key_attack",
                          "dict_attack_set_sectors_total",
                          "dict_attack_set_sectors_read",
                          "dict_attack_set_keys_found",
                          "dict_attack_set_current_dict_key",
                          "dict_attack_set_current_sector",
                          "dict_attack_set_nested_phase",
                          "dict_attack_set_prng_type",
                          "dict_attack_set_backdoor",
                          "dict_attack_set_nested_target_key",
                          "dict_attack_set_msb_count" }]_vars
    /\ [][(instance'.dict_attack.setters # instance.dict_attack.setters
           /\ scene' = "active") =>
            (\/ OnEventDataUpdate \/ OnEnter
             \/ OnEventComplete /\ InUserState
             \/ OnEventSkip /\ InUserState /\ ctx.is_card_present)]_vars

(* A skip restarted the run on the system dictionary while the key attack   *)
(* of the first session was on, its own notification still queued: the      *)
(* restart's refresh pushed the key-attack indicator only                   *)
C23_Witness ==
    /\ scene = "active"
    /\ InSystemState
    /\ cause = "NfcCustomEventDictAttackSkip"
    /\ instance.poller.id = 2
    /\ ctx.is_key_attack
    /\ instance.dict_attack.header = "MF Classic System Dictionary"
    /\ instance.dict_attack.setters = { "dict_attack_set_key_attack" }
    /\ queue = << [event |-> "NfcCustomEventDictAttackDataUpdate",
                   origin |-> 1] >>

(* C24: whenever a dictionary handle is open, dict_keys_current is the      *)
(* handle's cursor position; so a RequestKey made at dict_keys_current 0,   *)
(* as after NextSector, KeyAttackStop or phase entry, supplies the first    *)
(* candidate of a non-empty dictionary and sets dict_keys_current to 1.     *)
C24_CurrentIsCursor ==
    /\ [](instance.dict.open => ctx.dict_keys_current = instance.dict.cursor)
    /\ [][(\/ WorkerNextSector \/ WorkerKeyAttackStop \/ OnEnter
           \/ OnEventComplete /\ InUserState
           \/ OnEventSkip /\ InUserState /\ ctx.is_card_present) =>
            /\ instance'.dict.open
            /\ ctx'.dict_keys_current = 0]_vars
    /\ [][(WorkerRequestKey /\ ctx.dict_keys_current = 0
           /\ instance.dict.total > 0) =>
            /\ event_data'.key_provided
            /\ event_data'.key = <<instance.dict.path, 1>>
            /\ ctx'.dict_keys_current = 1]_vars

(* A key attack has been stopped in the system pass and the first candidate *)
(* of a dictionary of several has been supplied again                       *)
C24_Witness ==
    /\ scene = "active"
    /\ InSystemState
    /\ instance.dict_attack.refresh = "key_attack"
    /\ ~ctx.is_key_attack
    /\ instance.dict.total = MaxKeys
    /\ event_data.key_provided
    /\ event_data.key = <<NFC_APP_MF_CLASSIC_DICT_SYSTEM_PATH, 1>>
    /\ ctx.dict_keys_current = 1
    /\ instance.dict.cursor = 1

(* C25: after any sequence of short key presses current_channel is within  *)
(* 0..21 and every frequency lookup of the draw callback is inside          *)
(* frs_frequencies; Up goes to the previous channel and wraps 0 -> 21, Down *)
(* to the next and wraps 21 -> 0, so Up then Down and Down then Up give the *)
(* channel back; Ok toggles mute_status and leaves the channel.             *)
C25_ChannelInRange ==
    /\ [](/\ app.current_channel \in 0..21
          /\ app.frame.in_bounds
          /\ app.frame.drawn =>
               /\ app.frame.channel_str \in 1..22
               /\ app.frame.frequency = frs_frequencies[app.frame.channel_str]
          /\ ChannelDown(ChannelUp(app.current_channel)) = app.current_channel
          /\ ChannelUp(ChannelDown(app.current_channel)) = app.current_channel)
    /\ [][InputShortUp =>
            /\ app'.current_channel =
                 IF app.current_channel = 0 THEN 21 ELSE app.current_channel - 1
            /\ app'.mute_status = app.mute_status]_vars
    /\ [][InputShortDown =>
            /\ app'.current_channel =
                 IF app.current_channel = 21 THEN 0 ELSE app.current_channel + 1
            /\ app'.mute_status = app.mute_status]_vars
    /\ [][InputShortOk =>
            /\ app'.mute_status = ~app.mute_status
            /\ app'.current_channel = app.current_channel]_vars

(* Up from channel 0 has wrapped to the last channel, which has been drawn  *)
(* with its frequency, muted                                                *)
C25_Witness ==
    /\ app.current_channel = 21
    /\ app.mute_status
    /\ app.frame.drawn
    /\ app.frame.channel_str = 22
    /\ app.frame.frequency = 462725000

(* C26: when every write of serialize succeeded, a deserialize of that file *)
(* that can rewind it returns Ok and leaves in the block the serialized     *)
(* data (all 8 bytes, whatever data the block held before), id and          *)
(* battery_low, and data_count_bit modulo 256.  deserialize_check_count_bit *)
(* returns Ok exactly when its deserialize returned Ok and the stored       *)
(* data_count_bit equals count_bit, ErrorValueBitCount when deserialize     *)
(* returned Ok and they differ, and deserialize's own status otherwise.     *)
C26_SerializeDeserializeRoundTrip ==
    /\ [][((TpmsDeserialize \/ TpmsDeserializeCheckCountBit)
           /\ tpms.saved_ok) =>
            \/ /\ tpms'.last.deserialized = "SubGhzProtocolStatusOk"
               /\ tpms'.block.data = tpms.saved.data
               /\ tpms'.block.id = tpms.saved.id
               /\ tpms'.block.battery_low = tpms.saved.battery_low
               /\ tpms'.block.data_count_bit = tpms.saved.data_count_bit % 256
            \/ /\ tpms'.last.deserialized =
                    "SubGhzProtocolStatusErrorParserOthers"
               /\ tpms'.block = tpms.block]_vars
    /\ [][TpmsDeserializeCheckCountBit =>
            LET ok == tpms'.last.deserialized = "SubGhzProtocolStatusOk"
                same == tpms'.block.data_count_bit = tpms'.last.count_bit
            IN  /\ tpms'.last.res = "SubGhzProtocolStatusOk" <=> (ok /\ same)
                /\ (ok /\ ~same) =>
                     tpms'.last.res = "SubGhzProtocolStatusErrorValueBitCount"
                /\ ~ok => tpms'.last.res = tpms'.last.deserialized]_vars

(* A block with a byte pattern in data was written out in full and read     *)
(* back with the matching bit count                                         *)
C26_Witness ==
    /\ tpms.saved_ok
    /\ tpms.last.call = "deserialize_check_count_bit"
    /\ tpms.last.res = "SubGhzProtocolStatusOk"
    /\ tpms.last.count_bit = 255
    /\ tpms.block.data = <<1, 2, 3, 4, 5, 6, 7, 200>>
    /\ tpms.block.id = 70000
    /\ tpms.block.battery_low = 1
    /\ tpms.block.timestamp = CurrTs

====
